---- MODULE Spec2Model ----
(***************************************************************************)
(* Model of the submission review-and-execution pipeline of src/main.py    *)
(* (a discord.py bot that runs submitted code on Judge0): submit_code, the *)
(* static risk scorer, the language resolver with its process-wide catalog *)
(* cache, the Judge0 client and the SQLite submission store.               *)
(*                                                                         *)
(* Conventions.                                                            *)
(*  - Python's None is the empty tuple NoneV; a present value x is the     *)
(*    one-element tuple Some(x).                                           *)
(*  - Text the resolver inspects character by character (language names)   *)
(*    is a sequence of one-character strings; other text is opaque.        *)
(*  - Source code is a sequence of lines; each line is one snippet of a    *)
(*    fixed vocabulary whose regular-expression matches are tabulated.     *)
(*  - asyncio runs one coroutine at a time and switches only at an await:  *)
(*    every action is the code between two awaits of one submit_code call. *)
(***************************************************************************)
EXTENDS Integers, Sequences, FiniteSets, TLC

\* ------------------------------------------------------------------ bounds
\* Number of submit_code invocations (each its own asyncio task).
MaxTasks == 2

Tasks == 1..MaxTasks

\* ------------------------------------------------------------- None / Some
NoneV == <<>>
Some(x) == <<x>>
IsNone(o) == o = <<>>
Val(o) == o[1]

Min(a, b) == IF a <= b THEN a ELSE b

\* ------------------------------------------------------------- str methods
Digits == {"0", "1", "2", "3", "4", "5", "6", "7", "8", "9"}
Whitespace == {" "}

\* str.lower(), one character
LowerChar(c) ==
    CASE c = "P" -> "p"
      [] c = "Y" -> "y"
      [] c = "T" -> "t"
      [] c = "J" -> "j"
      [] c = "S" -> "s"
      [] c = "C" -> "c"
      [] OTHER -> c

\* str.lower()
Lower(s) == [i \in 1..Len(s) |-> LowerChar(s[i])]

\* str.strip(): drop leading and trailing whitespace
Strip(s) ==
    LET keep == {i \in 1..Len(s) : s[i] \notin Whitespace}
    IN IF keep = {} THEN <<>>
       ELSE LET lo == CHOOSE i \in keep : \A j \in keep : i <= j
                hi == CHOOSE i \in keep : \A j \in keep : j <= i
            IN SubSeq(s, lo, hi)

\* str.isdigit(): non-empty and every character a digit
IsDigit(s) == Len(s) > 0 /\ \A i \in 1..Len(s) : s[i] \in Digits

DigitVal(c) ==
    CASE c = "0" -> 0 [] c = "1" -> 1 [] c = "2" -> 2 [] c = "3" -> 3
      [] c = "4" -> 4 [] c = "5" -> 5 [] c = "6" -> 6 [] c = "7" -> 7
      [] c = "8" -> 8 [] c = "9" -> 9

DigitChar(d) ==
    CASE d = 0 -> "0" [] d = 1 -> "1" [] d = 2 -> "2" [] d = 3 -> "3"
      [] d = 4 -> "4" [] d = 5 -> "5" [] d = 6 -> "6" [] d = 7 -> "7"
      [] d = 8 -> "8" [] d = 9 -> "9"

\* int(s) for a string of decimal digits
RECURSIVE ParseInt(_)
ParseInt(s) ==
    IF Len(s) = 0 THEN 0
    ELSE 10 * ParseInt(SubSeq(s, 1, Len(s) - 1)) + DigitVal(s[Len(s)])

\* str(n) for a natural number
RECURSIVE IntToStr(_)
IntToStr(n) ==
    IF n < 10 THEN <<DigitChar(n)>>
    ELSE Append(IntToStr(n \div 10), DigitChar(n % 10))

\* a in b, for strings
Contains(b, a) ==
    \E i \in 0..(Len(b) - Len(a)) : SubSeq(b, i + 1, i + Len(a)) = a

\* " ".join(parts)
RECURSIVE JoinSpace(_)
JoinSpace(parts) ==
    IF Len(parts) = 0 THEN <<>>
    ELSE IF Len(parts) = 1 THEN parts[1]
    ELSE parts[1] \o <<" ">> \o JoinSpace(Tail(parts))

\* --------------------------------------------------------- find_language_id
\* A catalog entry is [id, name, language, aliases]; a key Judge0 leaves out
\* is the empty string (name, language) or the empty list (aliases).

\* the lower-cased values of name, language and every alias that are truthy
CandValues(lang) ==
    {Lower(v) : v \in {w \in {lang.name, lang.language} : Len(w) > 0}}
        \cup {Lower(lang.aliases[i]) : i \in 1..Len(lang.aliases)}

\* first pass, one entry: its id as a string, or any candidate value, equals the input
ExactHit(lang, user_lang_norm) ==
    \/ Lower(IntToStr(lang.id)) = user_lang_norm
    \/ user_lang_norm \in CandValues(lang)

\* second pass, one entry: the input is a substring of "id name language"
SubstringHit(lang, user_lang_norm) ==
    Contains(Lower(JoinSpace(<<IntToStr(lang.id), lang.name, lang.language>>)),
             user_lang_norm)

fallback_aliases ==
    << [key |-> <<"p", "y">>, mapped |-> <<"p", "y", "t", "h", "o", "n">>],
       [key |-> <<"p", "y", "t", "h", "o", "n", "3">>,
        mapped |-> <<"p", "y", "t", "h", "o", "n">>],
       [key |-> <<"j", "s">>,
        mapped |-> <<"j", "a", "v", "a", "s", "c", "r", "i", "p", "t">>],
       [key |-> <<"n", "o", "d", "e">>,
        mapped |-> <<"j", "a", "v", "a", "s", "c", "r", "i", "p", "t">>],
       [key |-> <<"c", "+", "+">>, mapped |-> <<"c", "p", "p">>],
       [key |-> <<"c", "#">>, mapped |-> <<"c", "s", "h", "a", "r", "p">>] >>

\* third pass, one entry: the mapped name is a substring of name or language
FallbackHit(lang, mapped) ==
    Contains(Lower(lang.name), mapped) \/ Contains(Lower(lang.language), mapped)

\* the id of the first of the entries of langs at the positions hits, or None
FirstHit(langs, hits) ==
    IF hits = {} THEN NoneV
    ELSE Some(langs[CHOOSE i \in hits : \A j \in hits : i <= j].id)

\* user_lang_norm = (user_lang or "").strip().lower()
Normalize(user_lang) == Lower(Strip(user_lang))

MatchCatalogOnePass(langs, user_lang_norm) ==
    FirstHit(langs, {k \in 1..Len(langs) :
                        \/ ExactHit(langs[k], user_lang_norm)
                        \/ SubstringHit(langs[k], user_lang_norm)})
\* find_language_id once the catalog is in hand (lines 280-317)
MatchCatalog(langs, user_lang_norm) ==
    LET exact == FirstHit(langs, {k \in 1..Len(langs) :
                                     ExactHit(langs[k], user_lang_norm)})
        substr == FirstHit(langs, {k \in 1..Len(langs) :
                                      SubstringHit(langs[k], user_lang_norm)})
        keys == {i \in 1..Len(fallback_aliases) :
                    fallback_aliases[i].key = user_lang_norm}
    IN IF ~IsNone(exact) THEN exact
       ELSE IF ~IsNone(substr) THEN substr
       ELSE IF keys # {}
            THEN LET mapped == fallback_aliases[CHOOSE i \in keys : TRUE].mapped
                 IN FirstHit(langs, {k \in 1..Len(langs) :
                                        FallbackHit(langs[k], mapped)})
       ELSE NoneV

\* -------------------------------------------------------- static_risk_check
\* SUSPICIOUS_PATTERNS, by position in the list
NumPatterns == 16
PatternPoints == 30
Base64Points == 20
FileAccessPoints == 10
ScoreCap == 100

\* What one line of code matches: the SUSPICIOUS_PATTERNS re.search finds in it
\* (case-insensitively), whether it holds a run of 50 or more base64 characters,
\* a file-open primitive, a read/write token; and its length in characters.
\* "QUJD*15" is QUJD fifteen times over; "pad8000" and "pad999" are that many
\* "#"; "" is the empty line.
LinePatterns(line) ==
    CASE line = "eval(x)" -> {1}
      [] line = "exec(x)" -> {2}
      [] line = "EXEC(x)" -> {2}
      [] line = "import os" -> {3}
      [] line = "subprocess.run(c)" -> {4}
      [] line = "subprocess.Popen(c)" -> {4, 11}
      [] OTHER -> {}

LineBase64(line) == line = "QUJD*15"

LineOpen(line) == line = "f = open(p)"

LineReadWrite(line) == line = "f.read()"

LineLen(line) ==
    CASE line = "eval(x)" -> 7
      [] line = "exec(x)" -> 7
      [] line = "EXEC(x)" -> 7
      [] line = "import os" -> 9
      [] line = "subprocess.run(c)" -> 17
      [] line = "subprocess.Popen(c)" -> 19
      [] line = "QUJD*15" -> 60
      [] line = "f = open(p)" -> 11
      [] line = "f.read()" -> 8
      [] line = "print(1)" -> 8
      [] line = "pad8000" -> 8000
      [] line = "pad999" -> 999
      [] OTHER -> 0

\* len(code): the lines and the newlines between them
RECURSIVE CodeLen(_)
CodeLen(code) ==
    IF Len(code) = 0 THEN 0
    ELSE IF Len(code) = 1 THEN LineLen(code[1])
    ELSE LineLen(code[1]) + 1 + CodeLen(Tail(code))

\* the patterns p for which re.search(SUSPICIOUS_PATTERNS[p], code, re.IGNORECASE)
\* finds a match
MatchedPatterns(code) == UNION {LinePatterns(code[i]) : i \in 1..Len(code)}

Base64Matches(code) == \E i \in 1..Len(code) : LineBase64(code[i])

FileAccessMatches(code) ==
    /\ \E i \in 1..Len(code) : LineOpen(code[i])
    /\ \E i \in 1..Len(code) : LineReadWrite(code[i])

\* the reasons the loop over SUSPICIOUS_PATTERNS appends for the patterns
\* p..NumPatterns, in list order
RECURSIVE PatternReasons(_, _)
PatternReasons(p, matched) ==
    IF p > NumPatterns THEN <<>>
    ELSE (IF p \in matched THEN <<[kind |-> "pattern", pat |-> p]>> ELSE <<>>)
         \o PatternReasons(p + 1, matched)

RiskReasons(code) ==
    PatternReasons(1, MatchedPatterns(code))
        \o (IF Base64Matches(code) THEN <<[kind |-> "base64", pat |-> 0]>> ELSE <<>>)
        \o (IF FileAccessMatches(code) THEN <<[kind |-> "file", pat |-> 0]>> ELSE <<>>)

\* score before the cap: 30 for each matching pattern, 20 and 10 for the heuristics
RawScore(code) ==
    PatternPoints * Cardinality(MatchedPatterns(code))
        + (IF Base64Matches(code) THEN Base64Points ELSE 0)
        + (IF FileAccessMatches(code) THEN FileAccessPoints ELSE 0)

static_risk_checkUncapped(code) ==
    [score |-> RawScore(code), reasons |-> RiskReasons(code)]
\* static_risk_check(code) -> (score, reasons)
static_risk_check(code) ==
    [score |-> Min(ScoreCap, RawScore(code)), reasons |-> RiskReasons(code)]

\* ------------------------------------------------------------------ config
MAX_CODE_LENGTH == 8000
RejectThreshold == 50

\* line 425: if len(code) > MAX_CODE_LENGTH
CodeTooLongInclusive(code) == CodeLen(code) >= MAX_CODE_LENGTH
CodeTooLong(code) == CodeLen(code) > MAX_CODE_LENGTH

\* line 439: if risk_score >= 50
RejectsAbove(score) == score > RejectThreshold
Rejects(score) == score >= RejectThreshold

\* ------------------------------------------------------- the outside world
Guilds == {1}
Channels == {10}

\* Judge0's answers to GET /languages
Python310 ==
    [id |-> 1,
     name |-> <<"P", "y", "t", "h", "o", "n", " ", "(", "3", ".", "1", "0", ")">>,
     language |-> <<>>, aliases |-> <<>>]
Py == [id |-> 2, name |-> <<"P", "y">>, language |-> <<>>, aliases |-> <<>>]
CatalogA == <<Python310, Py>>
CatalogB == <<Py>>

\* what session.get(url) does: a response with a status and a JSON body, or an
\* exception (connection error, timeout)
LanguagesResponses ==
    {[kind |-> "response", status |-> 200, body |-> CatalogA],
     [kind |-> "response", status |-> 200, body |-> CatalogB],
     [kind |-> "response", status |-> 503, body |-> <<>>],
     [kind |-> "exception", status |-> 0, body |-> <<>>]}

\* fetch_judge0_languages: the body of a 200 response, else None
fetch_judge0_languages(resp) ==
    IF resp.kind = "response" /\ resp.status = 200 THEN Some(resp.body) ELSE NoneV

\* A JSON object of Judge0 is the record of its keys' values; a key that is
\* absent or null is None.
NoFields ==
    [error |-> NoneV, stdout |-> NoneV, stderr |-> NoneV, compile_output |-> NoneV,
     status |-> NoneV, time |-> NoneV, memory |-> NoneV]

\* what session.post(url) does: a response (status, body text) or an exception.
\* The body text is a JSON object, another JSON value, or no JSON at all.
SubmissionResponses ==
    {[kind |-> "response", status |-> 201, json |-> "object",
      fields |-> [NoFields EXCEPT !.stdout = Some("hello\n"),
                                  !.stderr = Some("warning"),
                                  !.status = Some("Accepted"),
                                  !.time = Some("0.01"), !.memory = Some("3000")]],
     [kind |-> "response", status |-> 422, json |-> "object", fields |-> NoFields],
     [kind |-> "response", status |-> 502, json |-> "none", fields |-> NoFields],
     [kind |-> "response", status |-> 200, json |-> "array", fields |-> NoFields],
     [kind |-> "timeout", status |-> 0, json |-> "none", fields |-> NoFields],
     [kind |-> "exception", status |-> 0, json |-> "none", fields |-> NoFields]}

submit_to_judge0NoTimeoutClause(resp) ==
    CASE resp.kind \in {"timeout", "exception"} ->
            [type |-> "object",
             fields |-> [NoFields EXCEPT !.error = Some("str(e)")]]
      [] resp.kind = "response" /\ resp.json = "none" ->
            [type |-> "object",
             fields |-> [NoFields EXCEPT
                            !.error = Some("Judge0 returned non-JSON response")]]
      [] OTHER -> [type |-> resp.json, fields |-> resp.fields]
\* submit_to_judge0 and the try/except around its call (lines 498-503): the value
\* of `result`. json.loads gives the parsed body, whatever JSON value it is; a body
\* that is no JSON, a timeout and any other exception give a dict with "error".
submit_to_judge0(resp) ==
    CASE resp.kind = "timeout" ->
            [type |-> "object",
             fields |-> [NoFields EXCEPT !.error = Some("Timeout contacting Judge0")]]
      [] resp.kind = "exception" ->
            [type |-> "object",
             fields |-> [NoFields EXCEPT !.error = Some("str(e)")]]
      [] resp.kind = "response" /\ resp.json = "none" ->
            [type |-> "object",
             fields |-> [NoFields EXCEPT
                            !.error = Some("Judge0 returned non-JSON response")]]
      [] OTHER -> [type |-> resp.json, fields |-> resp.fields]

\* ------------------------------------------------------------------- state
VARIABLES
    cached_languages,   \* bot._cached_judge0_languages: None (or no attribute), or a list
    guild_config,       \* table guild_config: guild_id -> form_channel_id or None
    submissions,        \* table submissions: row i has id i
    pc,                 \* per task: the await submit_code is suspended at
    interaction,        \* per task: the command's arguments (guild, language, code)
    submission_id,      \* per task: the local submission_id (0 before intake)
    form_channel_id,    \* per task: the local form_channel_id (0 before it is read)
    lang_id,            \* per task: the local lang_id
    judge0_calls,       \* per submission id: POST /submissions requests issued
    channel_posts,      \* messages sent to form channels
    votes,              \* table votes: rows (submission_id, user_id, vote)
    vote_handler,       \* per button click: the await its handler is suspended at,
                        \* the submission of its VoteView, the tally it read
    footer              \* per submission: the tally in the footer of its message

vote_vars == <<votes, vote_handler, footer>>

vars ==
    <<cached_languages, guild_config, submissions, pc, interaction, submission_id,
      form_channel_id, lang_id, judge0_calls, channel_posts, votes, vote_handler,
      footer>>

NoInteraction == [guild |-> 0, user |-> 0, language |-> <<>>, code |-> <<>>]


\* --------------------------------------------------------------- the store
save_submissionDefaultStatus(rows, guild_id, user_id, language, code, status) ==
    Append(rows,
           [id |-> Len(rows) + 1, guild_id |-> guild_id, user_id |-> user_id,
            language |-> language, code |-> code, requirements |-> NoneV,
            status |-> "pending", ai_summary |-> NoneV,
            run_stdout |-> NoneV, run_stderr |-> NoneV])
\* save_submission: INSERT a row; AUTOINCREMENT gives it the next id
save_submission(rows, guild_id, user_id, language, code, status) ==
    Append(rows,
           [id |-> Len(rows) + 1, guild_id |-> guild_id, user_id |-> user_id,
            language |-> language, code |-> code, requirements |-> NoneV,
            status |-> status, ai_summary |-> NoneV,
            run_stdout |-> NoneV, run_stderr |-> NoneV])

update_submission_resultNoSummary(rows, id, status, ai_summary, stdout, stderr) ==
    [rows EXCEPT ![id] =
        [@ EXCEPT !.status = IF IsNone(status) THEN @ ELSE Val(status),
                  !.run_stdout = IF IsNone(stdout) THEN @ ELSE stdout,
                  !.run_stderr = IF IsNone(stderr) THEN @ ELSE stderr]]
update_submission_resultKeepsStatus(rows, id, status, ai_summary, stdout, stderr) ==
    [rows EXCEPT ![id] =
        [@ EXCEPT !.ai_summary = IF IsNone(ai_summary) THEN @ ELSE ai_summary,
                  !.run_stdout = IF IsNone(stdout) THEN @ ELSE stdout,
                  !.run_stderr = IF IsNone(stderr) THEN @ ELSE stderr]]
update_submission_resultAllColumns(rows, id, status, ai_summary, stdout, stderr) ==
    [rows EXCEPT ![id] =
        [@ EXCEPT !.status = IF IsNone(status) THEN @ ELSE Val(status),
                  !.ai_summary = ai_summary,
                  !.run_stdout = stdout,
                  !.run_stderr = stderr]]
\* update_submission_result: UPDATE the columns whose argument is not None
update_submission_result(rows, id, status, ai_summary, stdout, stderr) ==
    [rows EXCEPT ![id] =
        [@ EXCEPT !.status = IF IsNone(status) THEN @ ELSE Val(status),
                  !.ai_summary = IF IsNone(ai_summary) THEN @ ELSE ai_summary,
                  !.run_stdout = IF IsNone(stdout) THEN @ ELSE stdout,
                  !.run_stderr = IF IsNone(stderr) THEN @ ELSE stderr]]

get_form_channel_dbDefault(guild_id) ==
    IF IsNone(guild_config[guild_id]) THEN Some(10) ELSE guild_config[guild_id]
\* get_form_channel_db
get_form_channel_db(guild_id) == guild_config[guild_id]

\* ai_summary of the static review (lines 434-436)
AutomaticSummary(code, reasons) ==
    [kind |-> "Automatic summary", lines |-> SubSeq(code, 1, Min(10, Len(code))),
     reasons |-> reasons]

\* ai_analysis of an execution (lines 546-552)
ExecutionAnalysis(status_desc, time_used, memory_used, stdout, stderr, compile_out) ==
    [kind |-> "Execution analysis", status |-> status_desc, time |-> time_used,
     memory |-> memory_used, stdout |-> stdout, stderr |-> stderr,
     compile_output |-> compile_out]

\* the id read from a table cell, 0 when it is NULL
OrZero(o) == IF IsNone(o) THEN 0 ELSE Val(o)

\* x or ""
OrEmpty(o) == IF IsNone(o) THEN "" ELSE Val(o)

\* --------------------------------------------------------- the votes table
\* Number of button clicks on vote buttons (each handled by its own task).
MaxClicks == 2

Clicks == 1..MaxClicks
Voters == {100, 200}

set_voteInsertOnly(rows, id, user_id, vote) ==
    rows \cup {[submission_id |-> id, user_id |-> user_id, vote |-> vote]}
\* set_vote: INSERT OR REPLACE; the primary key is (submission_id, user_id), so
\* the row of that pair, if there is one, is deleted first
set_vote(rows, id, user_id, vote) ==
    {r \in rows : ~(r.submission_id = id /\ r.user_id = user_id)}
        \cup {[submission_id |-> id, user_id |-> user_id, vote |-> vote]}

\* SUM(vote) over a set of rows
RECURSIVE SumVotes(_)
SumVotes(rows) ==
    IF rows = {} THEN 0
    ELSE LET r == CHOOSE x \in rows : TRUE
         IN r.vote + SumVotes(rows \ {r})

\* get_votes: SUM(vote) and COUNT(*) of the rows of one submission
get_votes(rows, id) ==
    LET selected == {r \in rows : r.submission_id = id}
    IN [score |-> SumVotes(selected), count |-> Cardinality(selected)]

\* a click's handler before it runs and after it ended
NoHandler(at) == [at |-> at, submission_id |-> 0, votes |-> NoneV]

\* nobody has voted and no vote button was clicked
NoVotes ==
    /\ votes = {}
    /\ vote_handler = [h \in Clicks |-> NoHandler("idle")]
    /\ footer = {}

\* ------------------------------------------------------------------- Init
Init ==
    /\ cached_languages = NoneV
    /\ guild_config = [g \in Guilds |-> NoneV]
    /\ submissions = <<>>
    /\ pc = [t \in Tasks |-> "idle"]
    /\ interaction = [t \in Tasks |-> NoInteraction]
    /\ submission_id = [t \in Tasks |-> 0]
    /\ form_channel_id = [t \in Tasks |-> 0]
    /\ lang_id = [t \in Tasks |-> NoneV]
    /\ judge0_calls = <<>>
    /\ channel_posts = {}
    /\ NoVotes

\* ------------------------------------------------------- set_form_channel
set_form_channel(g, c) ==
    /\ guild_config' = [guild_config EXCEPT ![g] = Some(c)]
    /\ UNCHANGED <<cached_languages, submissions, pc, interaction, submission_id,
                   form_channel_id, lang_id, judge0_calls, channel_posts>>
    /\ UNCHANGED vote_vars

\* ------------------------------------------------------------ submit_code
\* the locals of task t after a step
Locals(t, at, i, id, channel_id, language_id) ==
    /\ pc' = [pc EXCEPT ![t] = at]
    /\ interaction' = [interaction EXCEPT ![t] = i]
    /\ submission_id' = [submission_id EXCEPT ![t] = id]
    /\ form_channel_id' = [form_channel_id EXCEPT ![t] = channel_id]
    /\ lang_id' = [lang_id EXCEPT ![t] = language_id]

\* submit_code returns, or an exception ends it: its locals are gone
Return(t) == Locals(t, "done", NoInteraction, 0, 0, NoneV)

\* submit_code waits at another await, its locals as they are
Goto(t, at) ==
    /\ pc' = [pc EXCEPT ![t] = at]
    /\ UNCHANGED <<interaction, submission_id, form_channel_id, lang_id>>

AfterResolveUnchecked(id) == "preview"
\* where submit_code waits once find_language_id returned id (lines 474-495):
\* for the sample of languages on None, else for the preview to be sent
AfterResolve(id) == IF IsNone(id) THEN "sample_fetch" ELSE "preview"

\* The commands the users give: harmless code in a language the catalog names,
\* in a numeric one and in an unknown one; code of each kind of risk; code that
\* is too long
PY == <<"P", "Y">>
Numeric71 == <<"7", "1">>
Unknown == <<"j", "s">>
Benign == <<"print(1)">>
Score40 == <<"exec(x)", "f = open(p)", "f.read()">>
Score50 == <<"exec(x)", "QUJD*15">>
TooLong == <<"pad8000", "pad999">>

Users == {100}

Interactions ==
    {[guild |-> g, user |-> u, language |-> c[1], code |-> c[2]] :
        g \in Guilds, u \in Users,
        c \in { <<PY, Benign>>, <<Numeric71, Benign>>, <<Unknown, Benign>>,
                <<Unknown, Score40>>, <<PY, Score50>>, <<PY, TooLong>> }}

ResolveStartCatalogFirst(user_lang) ==
    LET user_lang_norm == Normalize(user_lang)
    IN IF user_lang_norm = <<>> THEN [at |-> "sample_fetch", id |-> NoneV]
       ELSE IF IsNone(cached_languages)
       THEN [at |-> "languages_fetch", id |-> NoneV]
       ELSE IF IsDigit(user_lang_norm)
       THEN [at |-> "preview", id |-> Some(ParseInt(user_lang_norm))]
       ELSE LET id == MatchCatalog(Val(cached_languages), user_lang_norm)
            IN [at |-> IF IsNone(id) THEN "sample_fetch" ELSE "preview", id |-> id]
\* find_language_id up to its first await (lines 266-277): None for an empty
\* input, the number for a numeric one, a search of the cached catalog if there
\* is one; else it issues GET /languages and waits ("languages_fetch")
ResolveStart(user_lang) ==
    LET user_lang_norm == Normalize(user_lang)
    IN IF user_lang_norm = <<>> THEN [at |-> AfterResolve(NoneV), id |-> NoneV]
       ELSE IF IsDigit(user_lang_norm)
       THEN [at |-> "preview", id |-> Some(ParseInt(user_lang_norm))]
       ELSE IF IsNone(cached_languages)
       THEN [at |-> "languages_fetch", id |-> NoneV]
       ELSE LET id == MatchCatalog(Val(cached_languages), user_lang_norm)
            IN [at |-> AfterResolve(id), id |-> id]

\* lines 412-474 and find_language_id up to its first await: the guild's form
\* channel, the length check, intake, the static review, the rejection, and the
\* start of the language resolution. Tasks are numbered in order of invocation.
SubmitCode(t, i) ==
    /\ pc[t] = "idle"
    /\ \A u \in Tasks : u < t => pc[u] # "idle"
    /\ IF IsNone(get_form_channel_db(i.guild)) \/ CodeTooLong(i.code)
       THEN /\ Return(t)
            /\ UNCHANGED <<submissions, judge0_calls>>
       ELSE LET id == Len(submissions) + 1
                saved == save_submission(submissions, i.guild, i.user, i.language,
                                         i.code, "reviewing")
                risk == static_risk_check(i.code)
                ai_summary == AutomaticSummary(i.code, risk.reasons)
                reviewed == update_submission_result(saved, id, NoneV,
                                                     Some(ai_summary), NoneV, NoneV)
                r == ResolveStart(i.language)
            IN /\ judge0_calls' = Append(judge0_calls, 0)
               /\ IF Rejects(risk.score)
                  THEN /\ submissions' =
                             update_submission_result(reviewed, id, Some("rejected"),
                                                      NoneV, NoneV, NoneV)
                       /\ Return(t)
                  ELSE /\ submissions' = reviewed
                       /\ Locals(t, r.at, i, id, Val(get_form_channel_db(i.guild)),
                                 r.id)
    /\ UNCHANGED <<cached_languages, guild_config, channel_posts>>
    /\ UNCHANGED vote_vars

\* find_language_id, lines 277-317: the GET /languages it awaited is answered;
\* the cache is written, read back and searched
LanguagesFetched(t, resp) ==
    /\ pc[t] = "languages_fetch"
    /\ LET langs == fetch_judge0_languages(resp)
           cached == Some(IF IsNone(langs) THEN <<>> ELSE Val(langs))
           id == MatchCatalog(Val(cached), Normalize(interaction[t].language))
       IN /\ cached_languages' = cached
          /\ Locals(t, AfterResolve(id), interaction[t], submission_id[t],
                    form_channel_id[t], id)
    /\ UNCHANGED <<guild_config, submissions, judge0_calls, channel_posts>>
    /\ UNCHANGED vote_vars

SampleFetchedAndPosted(t) ==
    /\ pc[t] = "sample_fetch"
    /\ submissions' = update_submission_result(submissions, submission_id[t],
                                               Some("lang_not_found"), NoneV, NoneV,
                                               NoneV)
    /\ channel_posts' =
          channel_posts \cup
              {[submission_id |-> submission_id[t], channel |-> form_channel_id[t],
                status_field |-> "Language not found",
                stored_status |-> "lang_not_found"]}
    /\ Return(t)
    /\ UNCHANGED <<cached_languages, guild_config, judge0_calls>>
    /\ UNCHANGED vote_vars
\* lines 477-484: the sample of languages arrived (or not); the submission is
\* marked lang_not_found and the submitter is told
SampleFetched(t) ==
    /\ pc[t] = "sample_fetch"
    /\ submissions' = update_submission_result(submissions, submission_id[t],
                                               Some("lang_not_found"), NoneV, NoneV,
                                               NoneV)
    /\ Return(t)
    /\ UNCHANGED <<cached_languages, guild_config, judge0_calls, channel_posts>>
    /\ UNCHANGED vote_vars

\* lines 495-499: followup.send(preview) returned or raised; if it returned,
\* the code is posted to Judge0
PreviewSent(t, sent) ==
    /\ pc[t] = "preview"
    /\ IF sent
       THEN /\ judge0_calls' = [judge0_calls EXCEPT ![submission_id[t]] = @ + 1]
            /\ Goto(t, "judge0")
       ELSE Return(t) /\ UNCHANGED judge0_calls
    /\ UNCHANGED <<cached_languages, guild_config, submissions, channel_posts>>
    /\ UNCHANGED vote_vars

\* bot.get_channel(form_channel_id): the channel, or None when it is gone
GetChannel == {NoneV, Some("channel")}

\* lines 499-561: the POST to Judge0 ended. render_code_highlight_image and
\* img.save return or raise (rendered); bot.get_channel at line 557 gives the
\* form channel or None (channel)
Judge0Answered(t, resp) ==
    /\ pc[t] = "judge0"
    /\ LET result == submit_to_judge0(resp)
           f == result.fields
           id == submission_id[t]
       IN IF result.type # "object"
          THEN \* `"error" in result` or result.get raises
               Return(t) /\ UNCHANGED submissions
          ELSE IF ~IsNone(f.error)
          THEN /\ submissions' =
                     update_submission_result(submissions, id, Some("exec_failed"),
                                              NoneV, NoneV, f.error)
               /\ Goto(t, "failed_followup")
          ELSE \E rendered \in BOOLEAN, channel \in GetChannel :
                  IF ~rendered
                  THEN Return(t) /\ UNCHANGED submissions
                  ELSE /\ submissions' =
                             update_submission_result(
                                 submissions, id, Some("completed"),
                                 Some(ExecutionAnalysis(
                                         f.status, f.time, f.memory, OrEmpty(f.stdout),
                                         OrEmpty(f.stderr), OrEmpty(f.compile_output))),
                                 Some(OrEmpty(f.stdout)), Some(OrEmpty(f.stderr)))
                       /\ IF IsNone(channel)
                          THEN Return(t)
                          ELSE Goto(t, "post_completed")
    /\ UNCHANGED <<cached_languages, guild_config, judge0_calls, channel_posts>>
    /\ UNCHANGED vote_vars

\* what a successful channel.send(post_embed) of task t leaves in the channel
Post(t, status_field) ==
    [submission_id |-> submission_id[t], channel |-> form_channel_id[t],
     status_field |-> status_field,
     stored_status |-> submissions[submission_id[t]].status]

\* lines 509-520: followup.send("Execution Failed") returned or raised; if it
\* returned and bot.get_channel finds the form channel, the post is sent.
\* posted: followup.send returned, the channel was found and channel.send
\* returned
FailedFollowupSent(t, posted) ==
    /\ pc[t] = "failed_followup"
    /\ channel_posts' =
          IF posted
          THEN channel_posts \cup {Post(t, "Execution failed")}
          ELSE channel_posts
    /\ Return(t)
    /\ UNCHANGED <<cached_languages, guild_config, submissions, judge0_calls>>
    /\ UNCHANGED vote_vars

\* lines 578-581: channel.send(post_embed, file, view) returned (posted) or raised
ChannelSent(t, posted) ==
    /\ pc[t] = "post_completed"
    /\ channel_posts' =
          IF posted
          THEN channel_posts \cup {Post(t, "Executed & Reviewed")}
          ELSE channel_posts
    /\ Return(t)
    /\ UNCHANGED <<cached_languages, guild_config, submissions, judge0_calls>>
    /\ UNCHANGED vote_vars

Next ==
    \/ \E g \in Guilds, c \in Channels : set_form_channel(g, c)
    \/ \E t \in Tasks, i \in Interactions : SubmitCode(t, i)
    \/ \E t \in Tasks, resp \in LanguagesResponses : LanguagesFetched(t, resp)
    \/ \E t \in Tasks : SampleFetched(t)
    \/ \E t \in Tasks, sent \in BOOLEAN : PreviewSent(t, sent)
    \/ \E t \in Tasks, resp \in SubmissionResponses : Judge0Answered(t, resp)
    \/ \E t \in Tasks, posted \in BOOLEAN : FailedFollowupSent(t, posted)
    \/ \E t \in Tasks, posted \in BOOLEAN : ChannelSent(t, posted)

Spec == Init /\ [][Next]_vars


\* ------------------------------------------------ the resolver on its own
\* Resolutions of many inputs against many catalogs: the form channel is set,
\* the cache holds nothing or a catalog Judge0 served earlier, and the first task
\* runs submit_code with harmless code until find_language_id has returned.
JavaScript ==
    [id |-> 63, name |-> <<"J", "a", "v", "a", "S", "c", "r", "i", "p", "t">>,
     language |-> <<>>, aliases |-> <<>>]
Jython ==
    [id |-> 3, name |-> <<"J", "y", "t", "h", "o", "n">>, language |-> <<>>,
     aliases |-> <<<<"P", "y">>>>]
Cython ==
    [id |-> 4, name |-> <<>>, language |-> <<"p", "Y">>, aliases |-> <<>>]

ResolveCatalogs ==
    { <<>>, <<Python310>>, <<Python310, Py>>, <<Py, Python310>>,
      <<Python310, JavaScript>>, <<Python310, Jython>>, <<Jython, Cython>>,
      <<Python310, Cython, Py>> }

ResolveLanguages ==
    { <<"p", "y">>, <<"P", "Y">>, <<"P", "y">>, <<"p", "Y">>,
      <<" ", "p", "y", " ">>, <<"y", "t", "h">>, <<"T", "H", "O">>,
      <<"p", "y", "t", "h", "o", "n", "3">>, <<"j", "s">>, <<"J", "S">>,
      <<"z", "z">>, <<>>, <<" ">>,
      <<"7", "1">>, <<"0">>, <<"0", "0", "7">>, <<"2">> }

ResolveInteractions ==
    {[guild |-> g, user |-> u, language |-> l, code |-> Benign] :
        g \in Guilds, u \in Users, l \in ResolveLanguages}

ResolveResponses ==
    {[kind |-> "response", status |-> 200, body |-> c] : c \in ResolveCatalogs}
    \cup {[kind |-> "response", status |-> 503, body |-> <<>>],
          [kind |-> "exception", status |-> 0, body |-> <<>>]}

InitResolve ==
    /\ cached_languages \in {NoneV} \cup {Some(c) : c \in ResolveCatalogs}
    /\ guild_config = [g \in Guilds |-> Some(10)]
    /\ submissions = <<>>
    /\ pc = [t \in Tasks |-> "idle"]
    /\ interaction = [t \in Tasks |-> NoInteraction]
    /\ submission_id = [t \in Tasks |-> 0]
    /\ form_channel_id = [t \in Tasks |-> 0]
    /\ lang_id = [t \in Tasks |-> NoneV]
    /\ judge0_calls = <<>>
    /\ channel_posts = {}
    /\ NoVotes

NextResolve ==
    \/ \E i \in ResolveInteractions : SubmitCode(1, i)
    \/ \E resp \in ResolveResponses : LanguagesFetched(1, resp)

SpecResolve == InitResolve /\ [][NextResolve]_vars


\* ------------------------------------------- intake and review on their own
\* One submit_code command with code made of up to MaxLines lines, given to a
\* bot that is either fresh (the form channel set, nothing stored) or has run
\* one submission to the end before (a row, a populated cache, a message in
\* the form channel).
MaxLines == 3

ReviewLines ==
    {"eval(x)", "exec(x)", "EXEC(x)", "import os", "subprocess.Popen(c)", "QUJD*15",
     "f = open(p)", "f.read()", "print(1)", "pad8000", "pad999", ""}

ReviewCodes == UNION {[1..n -> ReviewLines] : n \in 0..MaxLines}

ReviewInteractions ==
    {[guild |-> g, user |-> u, language |-> Numeric71, code |-> c] :
        g \in Guilds, u \in Users, c \in ReviewCodes}

\* the store once one more submission of Benign, in the given language, was run
\* by Judge0 and stored as completed
CompletedRun(rows, language) ==
    LET f == (CHOOSE r \in SubmissionResponses : r.status = 201).fields
        id == Len(rows) + 1
        saved == save_submission(rows, 1, 100, language, Benign, "reviewing")
        reviewed == update_submission_result(
                        saved, id, NoneV,
                        Some(AutomaticSummary(Benign, static_risk_check(Benign).reasons)),
                        NoneV, NoneV)
    IN update_submission_result(
           reviewed, id, Some("completed"),
           Some(ExecutionAnalysis(f.status, f.time, f.memory, OrEmpty(f.stdout),
                                  OrEmpty(f.stderr), OrEmpty(f.compile_output))),
           Some(OrEmpty(f.stdout)), Some(OrEmpty(f.stderr)))

\* the message about it in the form channel
CompletedPost(id) ==
    [submission_id |-> id, channel |-> 10, status_field |-> "Executed & Reviewed",
     stored_status |-> "completed"]

EarlierStore == CompletedRun(<<>>, PY)

EarlierPost == CompletedPost(1)

InitReview ==
    /\ \/ /\ cached_languages = NoneV
          /\ submissions = <<>>
          /\ judge0_calls = <<>>
          /\ channel_posts = {}
       \/ /\ cached_languages = Some(CatalogA)
          /\ submissions = EarlierStore
          /\ judge0_calls = <<1>>
          /\ channel_posts = {EarlierPost}
    /\ guild_config = [g \in Guilds |-> Some(10)]
    /\ pc = [t \in Tasks |-> "idle"]
    /\ interaction = [t \in Tasks |-> NoInteraction]
    /\ submission_id = [t \in Tasks |-> 0]
    /\ form_channel_id = [t \in Tasks |-> 0]
    /\ lang_id = [t \in Tasks |-> NoneV]
    /\ NoVotes

NextReview == pc[1] = "idle" /\ \E i \in ReviewInteractions : SubmitCode(1, i)

SpecReview == InitReview /\ [][NextReview]_vars


\* ------------------------------------------------------- the vote buttons
\* Two submissions were run and posted, each message with its VoteView; the
\* voters click the buttons. submit_code and the vote handlers share no table
\* and no variable, so no submit_code step is taken here.
submit_vars ==
    <<cached_languages, guild_config, submissions, pc, interaction, submission_id,
      form_channel_id, lang_id, judge0_calls, channel_posts>>

\* the submissions whose message carries a VoteView (lines 576-578)
VoteViews ==
    {p.submission_id : p \in {q \in channel_posts :
                                 q.status_field = "Executed & Reviewed"}}

\* lines 378-379 and 384-385: the click of user_id on a button of the view of
\* submission id; set_vote, then the handler awaits send_message. Handlers are
\* numbered in order of the clicks.
Press(h, id, user_id, vote) ==
    /\ vote_handler[h].at = "idle"
    /\ \A g \in Clicks : g < h => vote_handler[g].at # "idle"
    /\ id \in VoteViews
    /\ votes' = set_vote(votes, id, user_id, vote)
    /\ vote_handler' =
          [vote_handler EXCEPT ![h] =
              [at |-> "send_message", submission_id |-> id, votes |-> NoneV]]
    /\ UNCHANGED footer
    /\ UNCHANGED submit_vars

upvote(h, id, user_id) == Press(h, id, user_id, 1)

downvote(h, id, user_id) == Press(h, id, user_id, -1)

\* lines 379-380, 368-372: send_message returned (sent) or raised; if it
\* returned, get_votes is read and the edit of the message is awaited
update_message_counts(h, sent) ==
    /\ vote_handler[h].at = "send_message"
    /\ vote_handler' =
          [vote_handler EXCEPT ![h] =
              IF sent
              THEN [at |-> "edit", submission_id |-> @.submission_id,
                    votes |-> Some(get_votes(votes, @.submission_id))]
              ELSE NoHandler("done")]
    /\ UNCHANGED <<votes, footer>>
    /\ UNCHANGED submit_vars

\* lines 372-374: message.edit took effect (edited), or failed and the
\* exception was swallowed
MessageEdited(h, edited) ==
    /\ vote_handler[h].at = "edit"
    /\ footer' =
          IF edited
          THEN {f \in footer : f.submission_id # vote_handler[h].submission_id}
                   \cup {[submission_id |-> vote_handler[h].submission_id,
                          votes |-> Val(vote_handler[h].votes)]}
          ELSE footer
    /\ vote_handler' = [vote_handler EXCEPT ![h] = NoHandler("done")]
    /\ UNCHANGED votes
    /\ UNCHANGED submit_vars

InitVotes ==
    /\ cached_languages = Some(CatalogA)
    /\ guild_config = [g \in Guilds |-> Some(10)]
    /\ submissions = CompletedRun(EarlierStore, Numeric71)
    /\ pc = [t \in Tasks |-> IF t <= 2 THEN "done" ELSE "idle"]
    /\ interaction = [t \in Tasks |-> NoInteraction]
    /\ submission_id = [t \in Tasks |-> 0]
    /\ form_channel_id = [t \in Tasks |-> 0]
    /\ lang_id = [t \in Tasks |-> NoneV]
    /\ judge0_calls = <<1, 1>>
    /\ channel_posts = {CompletedPost(1), CompletedPost(2)}
    /\ NoVotes

NextVotes ==
    \/ \E h \in Clicks, id \in VoteViews, user_id \in Voters : upvote(h, id, user_id)
    \/ \E h \in Clicks, id \in VoteViews, user_id \in Voters : downvote(h, id, user_id)
    \/ \E h \in Clicks, sent \in BOOLEAN : update_message_counts(h, sent)
    \/ \E h \in Clicks, edited \in BOOLEAN : MessageEdited(h, edited)

SpecVotes == InitVotes /\ [][NextVotes]_vars


\* ------------------------------------------------------------------ claims
\* submit_code is still running for submission k
Running(k) == \E t \in Tasks : submission_id[t] = k

\* C1: a submission whose static_risk_check score is 50 or more has status
\* rejected, and no POST to Judge0 was ever issued for it.
C1_RiskyIsRejectedAndNeverExecuted ==
    \A k \in 1..Len(submissions) :
        static_risk_check(submissions[k].code).score >= 50
            => submissions[k].status = "rejected" /\ judge0_calls[k] = 0

C1_Witness ==
    \E k \in 1..Len(submissions) :
        /\ static_risk_check(submissions[k].code).score >= 50
        /\ submissions[k].status = "rejected"
        /\ ~Running(k)

\* C2: for a submission that passed the risk step, the step that follows a
\* resolution to an id leaves exactly one POST to Judge0 issued, the step that
\* follows a failed resolution leaves none, and there is never more than one.
C2_ExecutedOnceIffResolved ==
    [][\A t \in Tasks :
          /\ (pc[t] = "preview" /\ pc'[t] # "preview")
                => judge0_calls'[submission_id[t]] = 1
          /\ (pc[t] = "sample_fetch" /\ pc'[t] # "sample_fetch")
                => judge0_calls'[submission_id[t]] = 0
          /\ \A k \in 1..Len(judge0_calls') : judge0_calls'[k] <= 1]_vars

\* C3: once submit_code has ended for a submission, its status is one of the
\* four terminal ones, never reviewing.
C3_EveryRunEndsTerminal ==
    \A k \in 1..Len(submissions) :
        ~Running(k) =>
            submissions[k].status \in
                {"rejected", "lang_not_found", "exec_failed", "completed"}

\* C4: a GET /languages of find_language_id that fails (an exception, or a
\* status other than 200) leaves the catalog cache unpopulated.
C4_FailedFetchCachesNothing ==
    [][\A t \in Tasks, resp \in LanguagesResponses :
          (LanguagesFetched(t, resp)
              /\ (resp.kind = "exception" \/ resp.status # 200))
            => IsNone(cached_languages')]_vars

\* C5: when the GET /languages of find_language_id fails, find_language_id
\* returns None (no id, not 0), and the step that follows marks the submission
\* lang_not_found and ends the run with no POST to Judge0 issued.
C5_FailedFetchIsUnresolved ==
    [][\A t \in Tasks :
          /\ \A resp \in LanguagesResponses :
                (LanguagesFetched(t, resp)
                    /\ (resp.kind = "exception" \/ resp.status # 200))
                  => IsNone(lang_id'[t]) /\ pc'[t] = "sample_fetch"
          /\ (pc[t] = "sample_fetch" /\ pc'[t] # "sample_fetch")
                => /\ pc'[t] = "done"
                   /\ submissions'[submission_id[t]].status = "lang_not_found"
                   /\ judge0_calls'[submission_id[t]] = 0]_vars

\* a run whose catalog fetch failed ended: its submission is lang_not_found
\* while the cache holds the empty list the failed fetch left
C5_Witness ==
    \E k \in 1..Len(submissions) :
        /\ cached_languages = Some(<<>>)
        /\ submissions[k].language = PY
        /\ submissions[k].status = "lang_not_found"
        /\ judge0_calls[k] = 0
        /\ ~Running(k)

\* C6: once the cache holds a catalog that a successful fetch returned, no
\* step changes it.
C6_PopulatedCacheNeverChanges ==
    [][(cached_languages \in {Some(CatalogA), Some(CatalogB)})
          => cached_languages' = cached_languages]_vars

\* C7: at most one GET /languages of find_language_id is in flight.
C7_OneFetchInFlight ==
    Cardinality({t \in Tasks : pc[t] = "languages_fetch"}) <= 1

\* C8: find_language_id given a string of decimal digits returns that number
\* at once: no GET /languages is issued and the cache is left as it is, whether
\* it holds a catalog or not.
C8_NumericInputs ==
    { [text |-> <<"7", "1">>, n |-> 71], [text |-> <<"0">>, n |-> 0],
      [text |-> <<"0", "0", "7">>, n |-> 7], [text |-> <<"2">>, n |-> 2] }

C8_NumericResolvesWithoutCatalog ==
    [][\A t \in Tasks, i \in ResolveInteractions, x \in C8_NumericInputs :
          (SubmitCode(t, i) /\ i.language = x.text)
            => /\ lang_id'[t] = Some(x.n)
               /\ pc'[t] = "preview"
               /\ cached_languages' = cached_languages]_vars

C8_Witness ==
    /\ pc[1] = "preview"
    /\ interaction[1].language = <<"7", "1">>
    /\ lang_id[1] = Some(71)
    /\ IsNone(cached_languages)

\* C9: for an input that is neither empty nor numeric, find_language_id
\* compares case-insensitively and returns the id of an entry that matches
\* exactly (id, name, language or alias) if there is one, whatever its place in
\* the catalog; else the id of an entry that matches by substring if there is
\* one; else only an id found through the fallback alias table, or None. With
\* the entries {1, "Python (3.10)"} and {2, "Py"}, "py" in any case gives 2.
C9_Exact(lang, norm) ==
    \/ norm = IntToStr(lang.id)
    \/ norm = Lower(lang.name)
    \/ norm = Lower(lang.language)
    \/ \E a \in 1..Len(lang.aliases) : norm = Lower(lang.aliases[a])

C9_Substring(lang, norm) ==
    Contains(Lower(IntToStr(lang.id) \o <<" ">> \o lang.name \o <<" ">>
                   \o lang.language), norm)

C9_ViaFallback(langs, norm, id) ==
    \E f \in 1..Len(fallback_aliases), k \in 1..Len(langs) :
        /\ fallback_aliases[f].key = norm
        /\ \/ Contains(Lower(langs[k].name), fallback_aliases[f].mapped)
           \/ Contains(Lower(langs[k].language), fallback_aliases[f].mapped)
        /\ id = Some(langs[k].id)

C10_ErrorStatusNeverCompleted ==
    [][\A t \in Tasks, resp \in SubmissionResponses :
          (Judge0Answered(t, resp) /\ resp.kind = "response" /\ resp.status \notin {200, 201})
            => submissions'[submission_id[t]].status # "completed"]_vars

\* C11: when Judge0 answers the POST with a body that is no JSON object (no
\* JSON at all, or a JSON value of another type), the submission is marked
\* exec_failed and a diagnostic is stored as its stderr.
C11_MalformedPayloadIsExecFailed ==
    [][\A t \in Tasks, resp \in SubmissionResponses :
          (Judge0Answered(t, resp) /\ resp.kind = "response" /\ resp.json # "object")
            => /\ submissions'[submission_id[t]].status = "exec_failed"
               /\ ~IsNone(submissions'[submission_id[t]].run_stderr)]_vars

\* C12: when the POST to Judge0 times out or fails with any other exception,
\* the submission is marked exec_failed, its stderr holds the reason (the
\* timeout message for a timeout), its stdout stays unset, and no later step
\* changes the row.
C12_TransportFailureIsExecFailed ==
    [][/\ \A t \in Tasks, resp \in SubmissionResponses :
             (Judge0Answered(t, resp) /\ resp.kind \in {"timeout", "exception"})
               => LET row == submissions'[submission_id[t]]
                  IN /\ row.status = "exec_failed"
                     /\ row.run_stderr =
                           Some(IF resp.kind = "timeout"
                                THEN "Timeout contacting Judge0" ELSE "str(e)")
                     /\ IsNone(row.run_stdout)
       /\ \A k \in 1..Len(submissions) :
             submissions[k].status = "exec_failed"
               => submissions'[k] = submissions[k]]_vars

C12_Witness ==
    \E k \in 1..Len(submissions) :
        /\ ~Running(k)
        /\ judge0_calls[k] = 1
        /\ submissions[k].status = "exec_failed"
        /\ submissions[k].run_stderr = Some("Timeout contacting Judge0")
        /\ IsNone(submissions[k].run_stdout)

\* C13: once submit_code has ended for a submission whose status is completed
\* or exec_failed, a message about it was sent to the guild's form channel.
C13_ExecutedIsPublished ==
    \A k \in 1..Len(submissions) :
        (~Running(k) /\ submissions[k].status \in {"completed", "exec_failed"})
            => \E p \in channel_posts : p.submission_id = k

\* C14: every message in a form channel is about a stored submission whose
\* status was completed or exec_failed when the message was sent and still is;
\* rejected and lang_not_found submissions have no message, and a refused
\* command (no row) has none either.
C14_OnlyExecutedIsPublished ==
    /\ \A p \in channel_posts :
          /\ p.submission_id \in 1..Len(submissions)
          /\ p.stored_status \in {"completed", "exec_failed"}
          /\ submissions[p.submission_id].status = p.stored_status
    /\ \A k \in 1..Len(submissions) :
          submissions[k].status \in {"rejected", "lang_not_found"}
            => ~\E p \in channel_posts : p.submission_id = k

\* one submission was published while an unresolved one ended without a message
C14_Witness ==
    \E k, n \in 1..Len(submissions) :
        /\ ~Running(k) /\ ~Running(n)
        /\ submissions[k].status = "lang_not_found"
        /\ submissions[n].status = "completed"
        /\ \E p \in channel_posts : p.submission_id = n
        /\ ~\E p \in channel_posts : p.submission_id = k

\* C15: when Judge0 answers the POST with a success status and a result object
\* (no "error" key, a stdout), the submission is marked completed, its stored
\* stdout is Judge0's stdout unchanged and its stored stderr is Judge0's stderr.
C15_WellFormedResultIsCompleted ==
    [][\A t \in Tasks, resp \in SubmissionResponses :
          (/\ Judge0Answered(t, resp)
           /\ resp.kind = "response" /\ resp.status \in {200, 201}
           /\ resp.json = "object"
           /\ IsNone(resp.fields.error) /\ ~IsNone(resp.fields.stdout))
            => LET row == submissions'[submission_id[t]]
               IN /\ row.status = "completed"
                  /\ row.run_stdout = resp.fields.stdout
                  /\ row.run_stderr = Some(OrEmpty(resp.fields.stderr))]_vars

\* C16: a submit_code command whose code is longer than 8000 characters (8001,
\* 9000) ends at once and leaves the store, the catalog cache, the POST counts
\* and the form channel as they were; code of 8000 characters or less is taken
\* in as a new row holding that code; no row ever holds longer code.
C16_Inputs ==
    { [code |-> <<"pad8000">>, len |-> 8000],
      [code |-> <<"pad8000", "">>, len |-> 8001],
      [code |-> <<"pad8000", "pad999">>, len |-> 9000],
      [code |-> <<"pad999", "print(1)">>, len |-> 1008],
      [code |-> <<>>, len |-> 0] }

C16_TooLongIsRefusedBeforeIntake ==
    [][/\ \A x \in C16_Inputs :
             SubmitCode(1, [guild |-> 1, user |-> 100, language |-> Numeric71,
                            code |-> x.code])
               => /\ CodeLen(x.code) = x.len
                  /\ IF x.len > 8000
                     THEN /\ pc'[1] = "done"
                          /\ submissions' = submissions
                          /\ cached_languages' = cached_languages
                          /\ judge0_calls' = judge0_calls
                          /\ channel_posts' = channel_posts
                     ELSE /\ Len(submissions') = Len(submissions) + 1
                          /\ submissions'[Len(submissions')].code = x.code
       /\ \A k \in 1..Len(submissions') : CodeLen(submissions'[k].code) <= 8000
       /\ Len(submissions') = Len(submissions)
             => /\ submissions' = submissions
                /\ cached_languages' = cached_languages
                /\ judge0_calls' = judge0_calls
                /\ channel_posts' = channel_posts]_vars

\* a command was refused: it ended and the earlier row is all the store holds
C16_Witness ==
    /\ pc[1] = "done"
    /\ submissions = EarlierStore
    /\ cached_languages = Some(CatalogA)
    /\ judge0_calls = <<1>>

\* C19: for the code of every stored submission, static_risk_check gives a
\* score between 0 and 100 that is min(100, 30 for each pattern of
\* SUSPICIOUS_PATTERNS found in the code + 20 if it holds a base64 run + 10 if
\* it opens and reads or writes a file), and one reason for each of these, the
\* patterns in list order, then base64, then file access; the reasons stored
\* with the row at review time are these same reasons; empty code scores 0
\* with no reasons.
C19_Found(code) ==
    {p \in 1..16 : \E n \in 1..Len(code) : p \in LinePatterns(code[n])}

C19_Points(code) ==
    30 * Cardinality(C19_Found(code))
        + (IF \E n \in 1..Len(code) : code[n] = "QUJD*15" THEN 20 ELSE 0)
        + (IF /\ \E n \in 1..Len(code) : code[n] = "f = open(p)"
              /\ \E n \in 1..Len(code) : code[n] = "f.read()"
           THEN 10 ELSE 0)

C19_InRuleOrder(reasons) ==
    \A a, b \in 1..Len(reasons) :
        a < b =>
            \/ reasons[a].kind = "pattern" /\ reasons[b].kind = "pattern"
                  /\ reasons[a].pat < reasons[b].pat
            \/ reasons[a].kind = "pattern" /\ reasons[b].kind \in {"base64", "file"}
            \/ reasons[a].kind = "base64" /\ reasons[b].kind = "file"

C19_ScoreIsCappedSum ==
    \A k \in 1..Len(submissions) :
        LET code == submissions[k].code
            r == static_risk_check(code)
            points == C19_Points(code)
        IN /\ r.score \in 0..100
           /\ r.score = IF points > 100 THEN 100 ELSE points
           /\ 30 * Cardinality({n \in 1..Len(r.reasons) : r.reasons[n].kind = "pattern"})
                 + 20 * Cardinality({n \in 1..Len(r.reasons) : r.reasons[n].kind = "base64"})
                 + 10 * Cardinality({n \in 1..Len(r.reasons) : r.reasons[n].kind = "file"})
                 = points
           /\ {r.reasons[n].pat : n \in {m \in 1..Len(r.reasons) :
                                            r.reasons[m].kind = "pattern"}}
                 = C19_Found(code)
           /\ C19_InRuleOrder(r.reasons)
           /\ submissions[k].status \in {"reviewing", "rejected"}
                 => Val(submissions[k].ai_summary).reasons = r.reasons
           /\ code = <<>> => r.score = 0 /\ r.reasons = <<>>

\* code that matches three patterns and the base64 heuristic (110 points) was
\* reviewed: its score is the cap
C19_Witness ==
    \E k \in 1..Len(submissions) :
        /\ submissions[k].code = <<"eval(x)", "subprocess.Popen(c)", "QUJD*15">>
        /\ static_risk_check(submissions[k].code).score = 100
        /\ Len(Val(submissions[k].ai_summary).reasons) = 4

\* C20: a stored submission whose score is exactly 50 is rejected, and one
\* whose score is 49 or less is not rejected. Code with exec( and a
\* 60-character base64 run scores 30 + 20.
C20_ThresholdIsInclusive ==
    /\ static_risk_check(<<"exec(x)", "QUJD*15">>).score = 50
    /\ \A k \in 1..Len(submissions) :
          LET score == static_risk_check(submissions[k].code).score
          IN /\ score = 50 => submissions[k].status = "rejected"
             /\ score <= 49 => submissions[k].status # "rejected"

C20_Witness ==
    \E k \in 1..Len(submissions) :
        /\ submissions[k].code = <<"exec(x)", "QUJD*15">>
        /\ submissions[k].language = Numeric71
        /\ submissions[k].status = "rejected"
        /\ pc[1] = "done"

\* C18: every stored status is reviewing or one of the four terminal ones; a
\* row is created as reviewing (or already rejected, when the static review
\* that follows its creation without an await rejects it); a step changes a
\* row's status only from reviewing to a terminal one, and a row is never
\* deleted.
C18_Terminal == {"rejected", "lang_not_found", "exec_failed", "completed"}

C18_StatusOnlyMovesForward ==
    [][/\ Len(submissions') >= Len(submissions)
       /\ \A k \in 1..Len(submissions) :
             submissions'[k].status # submissions[k].status
               => /\ submissions[k].status = "reviewing"
                  /\ submissions'[k].status \in C18_Terminal
       /\ \A k \in (Len(submissions) + 1)..Len(submissions') :
             submissions'[k].status \in {"reviewing", "rejected"}
       /\ \A k \in 1..Len(submissions') :
             submissions'[k].status \in {"reviewing"} \cup C18_Terminal]_vars

\* two runs ended in different terminal statuses
C18_Witness ==
    \E k, n \in 1..Len(submissions) :
        /\ ~Running(k) /\ ~Running(n)
        /\ submissions[k].status = "rejected"
        /\ submissions[n].status = "exec_failed"

\* C17: at every moment the votes table holds at most one row for each
\* (submission, voter); get_votes of a submission counts its voters and sums
\* their rows' directions; a click writes the clicked direction as the row of
\* its pair, leaves every other pair's row alone and raises the count only if
\* the voter had no row; nothing but a click changes the table.
C17_Rows(rows, id, u) == {r \in rows : r.submission_id = id /\ r.user_id = u}

RECURSIVE C17_Sum(_, _, _)
C17_Sum(rows, id, voters) ==
    IF voters = {} THEN 0
    ELSE LET u == CHOOSE v \in voters : TRUE
             mine == C17_Rows(rows, id, u)
         IN (IF mine = {} THEN 0 ELSE (CHOOSE r \in mine : TRUE).vote)
                + C17_Sum(rows, id, voters \ {u})

C17_LastWriteWins ==
    [][/\ \A id \in VoteViews, u \in Voters :
             Cardinality(C17_Rows(votes', id, u)) <= 1
       /\ \A id \in VoteViews :
             /\ get_votes(votes', id).count =
                   Cardinality({u \in Voters : C17_Rows(votes', id, u) # {}})
             /\ get_votes(votes', id).score = C17_Sum(votes', id, Voters)
       /\ \A h \in Clicks, id \in VoteViews, u \in Voters, d \in {1, -1} :
             Press(h, id, u, d)
               => /\ C17_Rows(votes', id, u) =
                        {[submission_id |-> id, user_id |-> u, vote |-> d]}
                  /\ \A n \in VoteViews, v \in Voters :
                        (n # id \/ v # u)
                          => C17_Rows(votes', n, v) = C17_Rows(votes, n, v)
                  /\ get_votes(votes', id).count =
                        get_votes(votes, id).count
                            + (IF C17_Rows(votes, id, u) = {} THEN 1 ELSE 0)
       /\ (\A h \in Clicks : vote_handler[h].at = "idle"
                                => vote_handler'[h].at = "idle")
             => votes' = votes]_vars

\* two clicks on the buttons of submission 1 by one voter, up and then down,
\* the second while the first click's handler had not finished: one voter,
\* score -1
C17_Witness ==
    /\ vote_handler[1].at = "send_message"
    /\ vote_handler[2].at = "send_message"
    /\ votes = {[submission_id |-> 1, user_id |-> 100, vote |-> -1]}
    /\ get_votes(votes, 1) = [score |-> -1, count |-> 1]

\* C21: every stored submission has its ai_summary set, from the step that
\* creates it on; a step that moves a row out of reviewing finds the summary of
\* the static review (the first lines of the code and the scorer's reasons)
\* already stored, and the rejected, lang_not_found and exec_failed rows still
\* hold it.
C21_ReviewSummary(row) ==
    Some([kind |-> "Automatic summary",
          lines |-> SubSeq(row.code, 1, IF Len(row.code) < 10 THEN Len(row.code) ELSE 10),
          reasons |-> static_risk_check(row.code).reasons])

C21_SummaryIsPersistedFirst ==
    [][/\ \A k \in 1..Len(submissions') :
             /\ ~IsNone(submissions'[k].ai_summary)
             /\ submissions'[k].status \in {"reviewing", "rejected", "lang_not_found",
                                            "exec_failed"}
                   => submissions'[k].ai_summary = C21_ReviewSummary(submissions'[k])
       /\ \A k \in 1..Len(submissions) :
             submissions'[k].status # submissions[k].status
               => submissions[k].ai_summary = C21_ReviewSummary(submissions[k])]_vars

\* code with two findings ended lang_not_found with both reasons stored
C21_Witness ==
    \E k \in 1..Len(submissions) :
        /\ ~Running(k)
        /\ submissions[k].status = "lang_not_found"
        /\ submissions[k].code = Score40
        /\ Len(Val(submissions[k].ai_summary).reasons) = 2

\* C22: a submit_code command in a guild with no form channel set ends at
\* once: no row is stored, the cache and the POST counts stay as they are and
\* no language is resolved; every stored row is of a guild whose form channel
\* is set.
C22_NoFormChannelIsRefused ==
    [][/\ \A t \in Tasks, i \in Interactions :
             (SubmitCode(t, i) /\ IsNone(guild_config[i.guild]))
               => /\ pc'[t] = "done"
                  /\ IsNone(lang_id'[t])
                  /\ submissions' = submissions
                  /\ cached_languages' = cached_languages
                  /\ judge0_calls' = judge0_calls
                  /\ channel_posts' = channel_posts
       /\ \A k \in 1..Len(submissions') :
             /\ ~IsNone(guild_config[submissions'[k].guild_id])
             /\ ~IsNone(guild_config'[submissions'[k].guild_id])]_vars

\* a command was refused for want of a form channel
C22_Witness ==
    /\ pc[1] = "done"
    /\ IsNone(guild_config[1])
    /\ submissions = <<>>
    /\ IsNone(cached_languages)

\* C23: a step that sends a message about a submission to a form channel
\* finds the status that the message announces already stored for it:
\* exec_failed for "Execution failed", completed for "Executed & Reviewed".
C23_StatusIsStoredBeforePublish ==
    [][\A p \in channel_posts' \ channel_posts :
          LET announced == IF p.status_field = "Execution failed"
                           THEN "exec_failed" ELSE "completed"
          IN /\ p.status_field \in {"Execution failed", "Executed & Reviewed"}
             /\ submissions[p.submission_id].status = announced
             /\ submissions'[p.submission_id].status = announced]_vars

\* a failed execution was published
C23_Witness ==
    \E p \in channel_posts :
        /\ p.status_field = "Execution failed"
        /\ submissions[p.submission_id].status = "exec_failed"
        /\ ~Running(p.submission_id)

\* C24: a step that marks a row lang_not_found changes nothing but its status;
\* a row that is created rejected has no stdout and no stderr and holds the
\* command's code and language and the summary of the static review; code and
\* language of a row never change; stdout is written only by the step that
\* marks the row completed, stderr only by one that marks it exec_failed or
\* completed.
C24_OnlyStatusChanges ==
    [][/\ \A k \in 1..Len(submissions) :
             LET old == submissions[k]
                 new == submissions'[k]
                 moved == new.status # old.status
             IN /\ new.code = old.code /\ new.language = old.language
                /\ (moved /\ new.status \in {"rejected", "lang_not_found"})
                      => new = [old EXCEPT !.status = new.status]
                /\ new.run_stdout # old.run_stdout
                      => moved /\ new.status = "completed"
                /\ new.run_stderr # old.run_stderr
                      => moved /\ new.status \in {"exec_failed", "completed"}
       /\ \A t \in Tasks, i \in Interactions :
             (SubmitCode(t, i) /\ Len(submissions') > Len(submissions))
               => LET new == submissions'[Len(submissions')]
                  IN /\ Len(submissions') = Len(submissions) + 1
                     /\ new.status \in {"reviewing", "rejected"}
                     /\ new.code = i.code /\ new.language = i.language
                     /\ new.ai_summary =
                           Some([kind |-> "Automatic summary",
                                 lines |-> i.code,
                                 reasons |-> static_risk_check(i.code).reasons])
                     /\ IsNone(new.run_stdout) /\ IsNone(new.run_stderr)
       /\ \A k \in 1..Len(submissions') :
             submissions'[k].status \in {"rejected", "lang_not_found", "reviewing"}
               => /\ IsNone(submissions'[k].run_stdout)
                  /\ IsNone(submissions'[k].run_stderr)]_vars

\* harmless code in an unknown language ended lang_not_found, nothing else
\* written
C24_Witness ==
    \E k \in 1..Len(submissions) :
        /\ ~Running(k)
        /\ submissions[k].status = "lang_not_found"
        /\ submissions[k].language = Unknown
        /\ submissions[k].code = Benign
        /\ IsNone(submissions[k].run_stdout) /\ IsNone(submissions[k].run_stderr)

====
